---- MODULE Spec2Model ----
(***************************************************************************)
(* Model of voucher-scanner.py (class VoucherScannerApp): the stability    *)
(* tracker of live scanning (update_frame), the digit-count shop           *)
(* classification (live copy in update_frame, picture copy in              *)
(* _process_frozen_frame), reset_scan / _reset_camera, shop selection and  *)
(* Fill Selected with its per-shop validation.                             *)
(*                                                                         *)
(* Texts are sequences of one-character strings.  A frame is modelled by   *)
(* what the decode cascade makes of it: no candidate, or a candidate       *)
(* (text, symbology, polygon length, pass that found it).                  *)
(***************************************************************************)
EXTENDS Integers, Sequences, FiniteSets, TLC

VARIABLES
    laptopCam,              \* LAPTOP_CAM: TRUE live auto-scan, FALSE picture mode
    feed,                   \* the symbols the camera can see in this run
    timers,                 \* Tk's queue of root.after callbacks, in due order
    potential_code,         \* self._potential_code
    potential_code_type,    \* self._potential_code_type
    potential_code_count,   \* self._potential_code_count
    stable_code,            \* self._stable_code
    potential_pin,          \* self._potential_pin
    potential_pin_count,    \* self._potential_pin_count
    stable_pin,             \* self._stable_pin
    code,                   \* self.code (StringVar of the code field)
    pin,                    \* self.pin  (StringVar of the PIN field)
    selected_shop,          \* self.selected_shop
    shopButtonsEnabled,     \* state of the shop buttons
    takePictureEnabled,     \* state of take_picture_btn
    status,                 \* what the status label shows
    picture_mode,           \* self.picture_mode
    frozen_frame,           \* self.frozen_frame
    workers,                \* _process_frozen_frame threads: position and locals
    roi,                    \* frame shape and ROI rectangle of the frame in hand
    cascade,                \* the _scan_1d call in progress: image, position, attempts
    automation,             \* started _open_shop threads that have not run yet
    driver,                 \* self._driver is a live browser; _manual_open_browser threads
    hist,                   \* candidates of the last scan cycles since the last reset
    lastCands,              \* candidates of the most recent classification
    choseSince,             \* the user picked a shop after the most recent classification
    ev                      \* what the last handler run did (its side effects)

vars == <<laptopCam, feed, roi, cascade, driver, timers, potential_code, potential_code_type,
          potential_code_count, stable_code, potential_pin, potential_pin_count,
          stable_pin, code, pin, selected_shop, shopButtonsEnabled,
          takePictureEnabled, status, picture_mode, frozen_frame, workers,
          automation, hist, lastCands, choseSince, ev>>

liveVars == <<potential_code, potential_code_type, potential_code_count, stable_code,
              potential_pin, potential_pin_count, stable_pin, hist>>

picVars == <<picture_mode, frozen_frame, workers>>

----------------------------------------------------------------------------
(* Program constants *)

STABLE_THRESHOLD == 3

(* Bounds of the model *)

\* longest digit run fed to the classifier and the validator
MaxDigits == 40
\* the match counter is followed up to this value
MaxCount == 4
\* _open_shop threads started and not yet run
MaxAutomation == 1

----------------------------------------------------------------------------
(* Texts *)

EmptyText == <<>>

DigitChars == {"0", "1", "2", "3", "4", "5", "6", "7", "8", "9"}

DigitAt(i) == CASE i % 10 = 0 -> "0" [] i % 10 = 1 -> "1" [] i % 10 = 2 -> "2"
                [] i % 10 = 3 -> "3" [] i % 10 = 4 -> "4" [] i % 10 = 5 -> "5"
                [] i % 10 = 6 -> "6" [] i % 10 = 7 -> "7" [] i % 10 = 8 -> "8"
                [] OTHER -> "9"

\* the digit string 1234567890123... of length n
Digs(n) == [i \in 1..n |-> DigitAt(i)]

\* the same digits counted from k+1, so that DigsFrom(k, n) differs from Digs(n)
DigsFrom(k, n) == [i \in 1..n |-> DigitAt(i + k)]

T_AAA == <<"A", "A", "A">>
T_BBB == <<"B", "B", "B">>
\* 38 digits with a separator after the first 18
M38 == DigsFrom(5, 18) \o <<"-">> \o DigsFrom(3, 20)
T20 == Digs(20)
P1234 == <<"1", "2", "3", "4">>
P5678 == <<"5", "6", "7", "8">>
T12 == <<"1", "2">>
T13 == Digs(13)

NoShop == "none"
Shops == {"REWE", "DM", "ALDI", "LIDL", "EDEKA"}

NoCard == [txt |-> <<"?">>, sym |-> "none", npoly |-> 0, via |-> "none"]
NoPin == <<"nopin">>
\* self.frozen_frame is None
NoFrame == [txt |-> <<"?">>, sym |-> "noframe", npoly |-> 0, via |-> "none"]

\* no frame in hand, no _scan_1d call in progress
NoRoi == [w |-> 0, h |-> 0, x0 |-> 0, y0 |-> 0, x1 |-> 0, y1 |-> 0, done |-> FALSE]
NoAttempt == [stage |-> "none", variant |-> "-", param |-> "-"]
NoCascade == [img |-> {}, ocr |-> FALSE, tried |-> <<>>, result |-> NoAttempt,
              done |-> FALSE]

Symbol(t, s) == [txt |-> t, sym |-> s]

\* the run with several cards shown in turn
SmallFeed == {Symbol(T_AAA, "CODE128"), Symbol(T_BBB, "QRCODE"),
              Symbol(M38, "CODE128")}

\* the run with two cards of the ALDI/LIDL number space
FillFeed == {Symbol(M38, "CODE128"), Symbol(T20, "CODE128")}

\* the runs with one card of n digits in front of the camera
LenFeeds == {{Symbol(Digs(n), "CODE128")} : n \in 0..MaxDigits}

Feeds == {SmallFeed} \cup LenFeeds

\* the frames a camera looking at the symbols of f can deliver, by what the
\* cascade finds in them
Frames(f) == {NoCard} \cup
             {[txt |-> s.txt, sym |-> s.sym, npoly |-> np, via |-> v] :
                  s \in f, np \in {0, 4}, v \in {"direct", "rotated"}}

----------------------------------------------------------------------------
(* Pure helpers *)

IsDigit(ch) == ch \in DigitChars

MinOf(S) == CHOOSE k \in S : \A m \in S : k <= m

\* "".join(ch for ch in s if ch.isdigit())
DigitsOnly(s) == SelectSeq(s, IsDigit)

\* s[k:] of Python, k counted from 0
DropFirst(s, k) == IF Len(s) <= k THEN <<>> ELSE SubSeq(s, k + 1, Len(s))

RECURSIVE LStrip(_)
LStrip(s) == IF s # <<>> /\ Head(s) = " " THEN LStrip(Tail(s)) ELSE s

RECURSIVE RStrip(_)
RStrip(s) == IF s # <<>> /\ s[Len(s)] = " " THEN RStrip(SubSeq(s, 1, Len(s) - 1)) ELSE s

\* s.strip()
Strip(s) == RStrip(LStrip(s))

\* s[a:b] of Python
Slice(s, a, b) == IF a >= b \/ a >= Len(s) THEN <<>>
                  ELSE SubSeq(s, a + 1, IF b > Len(s) THEN Len(s) ELSE b)

\* variant of TrimLocked: keeps the first 20 of 38 digits
TrimLocked_head(digits) == IF Len(digits) = 38 THEN SubSeq(digits, 1, 20) ELSE digits

\* variant of TrimLocked: every reading of 20 digits or more loses its first 18
TrimLocked_from20(digits) == IF Len(digits) >= 20 THEN DropFirst(digits, 18) ELSE digits

\* the digits shown in the code field at a lock: 38 digits lose their first 18
TrimLocked(digits) == IF Len(digits) = 38 THEN DropFirst(digits, 18) ELSE digits

\* variant of ClassifyLive: only the corrected length 20 is ALDI/LIDL
ClassifyLive_no38(n) == IF n = 13 THEN <<"REWE">>
                        ELSE IF n = 24 THEN <<"DM">>
                        ELSE IF n = 20 THEN <<"ALDI", "LIDL">>
                        ELSE IF n = 16 THEN <<"EDEKA">>
                        ELSE <<>>

\* variant of ClassifyLive: EDEKA also at the validator's length 19
ClassifyLive_edeka19(n) == IF n = 13 THEN <<"REWE">>
                           ELSE IF n = 24 THEN <<"DM">>
                           ELSE IF n = 20 \/ n = 38 THEN <<"ALDI", "LIDL">>
                           ELSE IF n = 16 \/ n = 19 THEN <<"EDEKA">>
                           ELSE <<>>

\* the candidate table of update_frame, on the digit count before trimming
ClassifyLive(n) == IF n = 13 THEN <<"REWE">>
                   ELSE IF n = 24 THEN <<"DM">>
                   ELSE IF n = 20 \/ n = 38 THEN <<"ALDI", "LIDL">>
                   ELSE IF n = 16 THEN <<"EDEKA">>
                   ELSE <<>>

\* variant of ClassifyPicture: the EDEKA and DM lengths swapped
ClassifyPicture_swapped(n) == IF n = 13 THEN <<"REWE">>
                              ELSE IF n = 16 THEN <<"DM">>
                              ELSE IF n = 24 THEN <<"EDEKA">>
                              ELSE IF n = 20 \/ n = 38 THEN <<"ALDI", "LIDL">>
                              ELSE <<>>

\* the candidate table of _process_frozen_frame
ClassifyPicture(n) == IF n = 13 THEN <<"REWE">>
                      ELSE IF n = 24 THEN <<"DM">>
                      ELSE IF n = 16 THEN <<"EDEKA">>
                      ELSE IF n = 20 \/ n = 38 THEN <<"ALDI", "LIDL">>
                      ELSE <<>>

MIN_OCR_DIGITS == 10
MAX_OCR_DIGITS == 24

\* variant of _validate_for: the 32-digit EDEKA reading keeps its last 19 digits
ValidateFor_edekaTail(shop, ds) ==
    LET n == Len(ds) IN
    IF shop = "REWE" THEN [ok |-> n = 13, corrected |-> ds, n |-> n]
    ELSE IF shop = "DM" THEN [ok |-> n = 24, corrected |-> ds, n |-> n]
    ELSE IF shop \in {"ALDI", "LIDL"} THEN
        IF n = 20 THEN [ok |-> TRUE, corrected |-> ds, n |-> n]
        ELSE IF n = 38 THEN [ok |-> TRUE, corrected |-> DropFirst(ds, 18), n |-> n]
        ELSE [ok |-> FALSE, corrected |-> ds, n |-> n]
    ELSE IF shop = "EDEKA" THEN
        IF n = 32 THEN [ok |-> TRUE, corrected |-> DropFirst(ds, 13), n |-> n]
        ELSE [ok |-> n = 19, corrected |-> ds, n |-> n]
    ELSE [ok |-> MIN_OCR_DIGITS <= n /\ n <= MAX_OCR_DIGITS, corrected |-> ds, n |-> n]

\* _validate_for(shop, ds) -> (ok, corrected, n)
ValidateFor(shop, ds) ==
    LET n == Len(ds) IN
    IF shop = "REWE" THEN [ok |-> n = 13, corrected |-> ds, n |-> n]
    ELSE IF shop = "DM" THEN [ok |-> n = 24, corrected |-> ds, n |-> n]
    ELSE IF shop \in {"ALDI", "LIDL"} THEN
        IF n = 20 THEN [ok |-> TRUE, corrected |-> ds, n |-> n]
        ELSE IF n = 38 THEN [ok |-> TRUE, corrected |-> DropFirst(ds, 18), n |-> n]
        ELSE [ok |-> FALSE, corrected |-> ds, n |-> n]
    ELSE IF shop = "EDEKA" THEN
        IF n = 32 THEN [ok |-> TRUE, corrected |-> Slice(ds, 11, 16) \o DropFirst(ds, 18),
                        n |-> n]
        ELSE [ok |-> n = 19, corrected |-> ds, n |-> n]
    ELSE [ok |-> MIN_OCR_DIGITS <= n /\ n <= MAX_OCR_DIGITS, corrected |-> ds, n |-> n]

----------------------------------------------------------------------------
(* The ROI rectangle *)

\* ROI_HEIGHT_FRAC = 0.35 and ROI_WIDTH_FRAC = 0.90, in hundredths
ROI_HEIGHT_PCT == 35
ROI_WIDTH_PCT == 90

RECURSIVE FloorLog2(_)
FloorLog2(k) == IF k <= 1 THEN 0 ELSE 1 + FloorLog2(k \div 2)

RECURSIVE Pow2(_)
Pow2(e) == IF e = 0 THEN 1 ELSE 2 * Pow2(e - 1)

\* int(h * 0.35) in double arithmetic.  The double nearest 0.35 is
\* 0.35 - 0.4 * 2^-54, so h * 0.35 is below 35h/100 by 0.4h * 2^-54 before
\* rounding.  When 35h/100 is an integer k (h a multiple of 20) the product
\* rounds to k only if that gap is at most half the spacing 2^(e-52) of the
\* doubles below k, e = floor(log2 k), that is if h <= 5 * 2^e; else it rounds
\* to the double below k and int() yields k - 1 (first at h = 180).  Elsewhere
\* the product is at least 0.05 away from an integer and int() is the floor.
IntTimesHeightFrac(h) ==
    LET k == (7 * h) \div 20 IN
    IF h > 0 /\ h % 20 = 0 /\ h > 5 * Pow2(FloorLog2(k)) THEN k - 1
    ELSE (h * ROI_HEIGHT_PCT) \div 100

\* int(w * 0.90): the double nearest 0.90 is above 0.90 by 0.2 * 2^-52, the
\* product never falls below an integer it should reach
IntTimesWidthFrac(w) == (w * ROI_WIDTH_PCT) \div 100

\* _compute_roi_rect(w, h) -> x0, y0, x0 + roi_w, y0 + roi_h
ComputeRoiRect(w, h) ==
    LET roi_h == IntTimesHeightFrac(h)
        roi_w == IntTimesWidthFrac(w)
        x0 == (w - roi_w) \div 2
        y0 == (h - roi_h) \div 2
    IN [x0 |-> x0, y0 |-> y0, x1 |-> x0 + roi_w, y1 |-> y0 + roi_h]

----------------------------------------------------------------------------
(* The decode cascade of _scan_1d.  An image is modelled by the set of     *)
(* decode attempts that would decode a symbol in it.                       *)

\* the preprocessing candidates, in the order they are appended
DirectVariants == <<"gray", "sharp", "closed", "enhanced", "binary", "inv_binary",
                    "adaptive">>

InBestForScaling(name) == name \in {"binary", "sharp", "closed"}
InBestForRotation(name) == name \in {"binary", "inv_binary"}

\* _try_multiple_scales
Scales == <<"0.8", "1.0", "1.2", "1.5", "2.0">>
\* _try_rotations
Angles == <<"0", "90", "180", "270">>
\* the transforms of the OCR fallback
Transforms == <<"identity", "bilateral", "gaussian", "adaptive_mean",
                "adaptive_gaussian", "otsu", "median", "upscale">>

\* for name in variants: for p in params: one attempt
Attempts(stage, variants, params) ==
    [k \in 1..(Len(variants) * Len(params)) |->
        [stage |-> stage,
         variant |-> variants[((k - 1) \div Len(params)) + 1],
         param |-> params[((k - 1) % Len(params)) + 1]]]

\* variant of CascadeOrder: the rotation search before the scale search
CascadeOrder_rotationFirst(ocr) ==
    Attempts("direct", DirectVariants, <<"-">>)
    \o Attempts("rotation", SelectSeq(DirectVariants, InBestForRotation), Angles)
    \o Attempts("scale", SelectSeq(DirectVariants, InBestForScaling), Scales)
    \o (IF ocr THEN Attempts("ocr", <<"roi">>, Transforms) ELSE <<>>)

\* variant of CascadeOrder: the scale search goes through every variant
CascadeOrder_scaleAll(ocr) ==
    Attempts("direct", DirectVariants, <<"-">>)
    \o Attempts("scale", DirectVariants, Scales)
    \o Attempts("rotation", SelectSeq(DirectVariants, InBestForRotation), Angles)
    \o (IF ocr THEN Attempts("ocr", <<"roi">>, Transforms) ELSE <<>>)

\* the attempts of _scan_1d in the order of its loops
CascadeOrder(ocr) ==
    Attempts("direct", DirectVariants, <<"-">>)
    \o Attempts("scale", SelectSeq(DirectVariants, InBestForScaling), Scales)
    \o Attempts("rotation", SelectSeq(DirectVariants, InBestForRotation), Angles)
    \o (IF ocr THEN Attempts("ocr", <<"roi">>, Transforms) ELSE <<>>)

\* _scan_1d on an image: the attempts made up to the first that decodes, and
\* that attempt; all of them and None when none decodes
RunCascade(img, ocr) ==
    LET order == CascadeOrder(ocr)
        hits == {k \in 1..Len(order) : order[k] \in img}
    IN IF hits = {} THEN [tried |-> order, result |-> NoAttempt]
       ELSE [tried |-> SubSeq(order, 1, MinOf(hits)), result |-> order[MinOf(hits)]]

\* variant of Scan1d: a PIN is reported next to the card
Scan1d_withPin(f) == [card |-> IF f.via = "direct" THEN f ELSE NoCard, pin |-> P1234]

\* _scan_1d: the card found by the direct passes, and the PIN (None on every path)
Scan1d(f) == [card |-> IF f.via = "direct" THEN f ELSE NoCard, pin |-> NoPin]

PIN_DIGITS == 4

\* _scan_1d_and_PIN, "Extract PIN": the first token of exactly PIN_DIGITS digits
\* of a line, None when the line has none
FirstHit(line) ==
    LET hits == {k \in 1..Len(line) :
                    Len(line[k]) = PIN_DIGITS /\ \A j \in 1..Len(line[k]) : IsDigit(line[k][j])}
    IN IF hits = {} THEN NoPin ELSE line[MinOf(hits)]

\* the PIN of the first line that has one
ExtractPin(lines) ==
    LET ls == {k \in 1..Len(lines) : FirstHit(lines[k]) # NoPin}
    IN IF ls = {} THEN NoPin ELSE FirstHit(lines[MinOf(ls)])

RECURSIVE JoinAll(_)
\* "".join(seqs)
JoinAll(seqs) == IF seqs = <<>> THEN <<>> ELSE Head(seqs) \o JoinAll(Tail(seqs))

IsLongNumber(t) == Len(t) >= MIN_OCR_DIGITS /\ \A j \in 1..Len(t) : IsDigit(t[j])

NonEmpty(t) == t # <<>>

\* _scan_1d_and_PIN, "Extract Card/ID number": the numeric tokens of at least
\* MIN_OCR_DIGITS digits; when there is none, the digits of two or more lines
\* joined, if their number is within MIN_OCR_DIGITS..MAX_OCR_DIGITS
OcrCandidates(lines) ==
    LET long == JoinAll([k \in 1..Len(lines) |-> SelectSeq(lines[k], IsLongNumber)])
        numlines == SelectSeq([k \in 1..Len(lines) |-> DigitsOnly(JoinAll(lines[k]))],
                              NonEmpty)
        joined == JoinAll(numlines)
    IN IF long # <<>> THEN long
       ELSE IF Len(numlines) >= 2 /\ MIN_OCR_DIGITS <= Len(joined)
                                  /\ Len(joined) <= MAX_OCR_DIGITS
       THEN <<joined>>
       ELSE <<>>

\* max(candidates, key=len): the first of the longest
Longest(c) == c[MinOf({k \in 1..Len(c) : \A m \in 1..Len(c) : Len(c[m]) <= Len(c[k])})]

\* _scan_1d_and_PIN, the combined barcode and PIN decoder: the barcode when one
\* decodes, else the number read by OCR; and the PIN
Scan1dAndPin(pf) ==
    [card |-> IF pf.barcode # NoCard THEN pf.barcode
              ELSE IF OcrCandidates(pf.lines) # <<>>
              THEN [txt |-> Longest(OcrCandidates(pf.lines)), sym |-> "OCR",
                    npoly |-> 4, via |-> "direct"]
              ELSE NoCard,
     pin |-> ExtractPin(pf.lines)]

\* _scan_barcodes_only on the crop rotated by 90 degrees
ScanBarcodesOnly(f) == IF f.via = "rotated" THEN <<f>> ELSE <<>>

\* poly[:, 1] on the array of an empty polygon raises IndexError
RotatedPassRaises(f) ==
    /\ Scan1d(f).card = NoCard
    /\ ScanBarcodesOnly(f) # <<>>
    /\ ScanBarcodesOnly(f)[1].npoly = 0

\* card_info after the direct and the rotated pass
CardInfo(f) == IF Scan1d(f).card # NoCard THEN Scan1d(f).card
               ELSE IF ScanBarcodesOnly(f) # <<>> THEN ScanBarcodesOnly(f)[1]
               ELSE NoCard

\* variant of TrackCode: a differing candidate replaces the text but the
\* counter goes on counting
TrackCode_noRestart(pcode, ptype, pcount, card) ==
    IF card # NoCard
    THEN IF card.txt = pcode
         THEN [code |-> pcode, type |-> ptype, count |-> pcount + 1]
         ELSE [code |-> card.txt, type |-> card.sym, count |-> pcount + 1]
    ELSE [code |-> EmptyText, type |-> ptype, count |-> 0]

\* variant of TrackCode: a cycle without a candidate leaves the tracked text
\* and its counter as they are
TrackCode_keepsOnNone(pcode, ptype, pcount, card) ==
    IF card # NoCard
    THEN IF card.txt = pcode
         THEN [code |-> pcode, type |-> ptype, count |-> pcount + 1]
         ELSE [code |-> card.txt, type |-> card.sym, count |-> 1]
    ELSE [code |-> pcode, type |-> ptype, count |-> pcount]

\* variant of TrackCode: a differing candidate empties the tracker
TrackCode_dropsNew(pcode, ptype, pcount, card) ==
    IF card # NoCard
    THEN IF card.txt = pcode
         THEN [code |-> pcode, type |-> ptype, count |-> pcount + 1]
         ELSE [code |-> EmptyText, type |-> ptype, count |-> 0]
    ELSE [code |-> EmptyText, type |-> ptype, count |-> 0]

\* step 1 of the stability logic: the tracked code after one candidate
TrackCode(pcode, ptype, pcount, card) ==
    IF card # NoCard
    THEN IF card.txt = pcode
         THEN [code |-> pcode, type |-> ptype, count |-> pcount + 1]
         ELSE [code |-> card.txt, type |-> card.sym, count |-> 1]
    ELSE [code |-> EmptyText, type |-> ptype, count |-> 0]

\* step 2 of the stability logic: the tracked PIN after one candidate
TrackPin(ppin, pcount, pin_info) ==
    IF pin_info # NoPin
    THEN IF pin_info = ppin
         THEN [pin |-> ppin, count |-> pcount + 1]
         ELSE [pin |-> pin_info, count |-> 1]
    ELSE [pin |-> EmptyText, count |-> 0]

\* variant of LockReached: one cycle late
LockReached_late(count) == count > STABLE_THRESHOLD

\* variant of LockReached: one cycle early
LockReached_early(count) == count >= STABLE_THRESHOLD - 1

\* step 3, the lock-in test on the match counter
LockReached(count) == count >= STABLE_THRESHOLD

\* variant of IsNewLock: every lock counts as new
IsNewLock_always(potential, stable) == TRUE

\* is_new_lock
IsNewLock(potential, stable) == potential # stable

St(kind, color) == [kind |-> kind, color |-> color, n |-> -1, shop |-> NoShop]
StShop(kind, color, shop) == [kind |-> kind, color |-> color, n |-> -1, shop |-> shop]
StCount(kind, color, n) == [kind |-> kind, color |-> color, n |-> n, shop |-> NoShop]

Ev(op) == [op |-> op, lock |-> FALSE, newLock |-> FALSE, pinLock |-> FALSE, beep |-> FALSE,
           classified |-> FALSE, n |-> -1, cands |-> <<>>,
           fillShop |-> NoShop, fillCard |-> <<>>, fillOk |-> FALSE,
           validated |-> <<>>, ui |-> {}]

Seen(card) == [some |-> card # NoCard, txt |-> IF card # NoCard THEN card.txt ELSE <<>>]

Push(h, e) == IF Len(h) < STABLE_THRESHOLD THEN Append(h, e) ELSE Append(Tail(h), e)

----------------------------------------------------------------------------
(* State after construction.  The constructor ends by calling update_frame  *)
(* (live) or update_live_video (picture mode): that first run is the one    *)
(* pending callback of the initial state.                                   *)

InitBase(cam, f) ==
    /\ laptopCam = cam
    /\ feed = f
    /\ timers = IF cam THEN <<"frame">> ELSE <<"live">>
    /\ potential_code = EmptyText
    /\ potential_code_type = ""
    /\ potential_code_count = 0
    /\ stable_code = EmptyText
    /\ potential_pin = EmptyText
    /\ potential_pin_count = 0
    /\ stable_pin = EmptyText
    /\ code = EmptyText
    /\ pin = EmptyText
    /\ selected_shop = NoShop
    /\ shopButtonsEnabled = FALSE
    /\ takePictureEnabled = ~cam
    /\ status = St("ready", "blue")
    /\ picture_mode = FALSE
    /\ frozen_frame = NoFrame
    /\ workers = <<>>
    /\ automation = <<>>
    /\ driver = [alive |-> FALSE, workers |-> 0]
    /\ hist = <<>>
    /\ lastCands = <<>>
    /\ choseSince = FALSE
    /\ ev = Ev("init")

InitWith(cam, f) ==
    /\ InitBase(cam, f)
    /\ roi = NoRoi
    /\ cascade = NoCascade

Init ==
    \/ \E f \in Feeds : InitWith(TRUE, f)
    \/ \E f \in LenFeeds : InitWith(FALSE, f)

----------------------------------------------------------------------------
(* Tk's timer queue.  Callbacks fire in the order of their due times; a    *)
(* callback scheduled now with a short delay (20 or 30 ms) is due after    *)
(* every short-delay callback already queued and before or after a queued  *)
(* 2000 ms _auto_unfreeze timer; a new 2000 ms timer is due last.          *)

Due(kind) == timers # <<>> /\ Head(timers) = kind

InsertAt(q, p, x) == SubSeq(q, 1, p - 1) \o <<x>> \o SubSeq(q, p, Len(q))

LastShort(q) == IF \E k \in 1..Len(q) : q[k] # "unfreeze"
                THEN CHOOSE k \in 1..Len(q) :
                         /\ q[k] # "unfreeze"
                         /\ \A m \in (k + 1)..Len(q) : q[m] = "unfreeze"
                ELSE 0

\* the queues after root.after(20 or 30, x)
AfterShort(q, x) == {InsertAt(q, p, x) : p \in (LastShort(q) + 1)..(Len(q) + 1)}

----------------------------------------------------------------------------
(* Live scanning *)

\* variant of UpdateFrameReadFailed: the failed read counts as a cycle without
\* a candidate
UpdateFrameReadFailed_resets ==
    /\ laptopCam /\ Due("frame")
    /\ timers' \in AfterShort(Tail(timers), "frame")
    /\ status' = St("camera_read_failed", "red")
    /\ ev' = Ev("read_failed")
    /\ potential_code' = EmptyText
    /\ potential_code_count' = 0
    /\ UNCHANGED <<laptopCam, feed, driver, roi, cascade, potential_code_type, stable_code,
                   potential_pin, potential_pin_count, stable_pin, hist, code, pin,
                   selected_shop, shopButtonsEnabled, takePictureEnabled, picVars,
                   automation, lastCands, choseSince>>

\* update_frame, camera read failed: status, reschedule, return
UpdateFrameReadFailed ==
    /\ laptopCam /\ Due("frame")
    /\ timers' \in AfterShort(Tail(timers), "frame")
    /\ status' = St("camera_read_failed", "red")
    /\ ev' = Ev("read_failed")
    /\ UNCHANGED <<laptopCam, feed, driver, roi, cascade, liveVars, code, pin, selected_shop,
                   shopButtonsEnabled, takePictureEnabled, picVars, automation,
                   lastCands, choseSince>>

\* update_frame less than SCAN_EVERY_MS after the last scan: redraw, reschedule
UpdateFrameThrottled ==
    /\ laptopCam /\ Due("frame")
    /\ timers' \in AfterShort(Tail(timers), "frame")
    /\ ev' = Ev("skip")
    /\ UNCHANGED <<laptopCam, feed, driver, roi, cascade, liveVars, code, pin, selected_shop,
                   shopButtonsEnabled, takePictureEnabled, status, picVars, automation,
                   lastCands, choseSince>>

\* update_frame, the rotated pass raises on an empty polygon: the handler ends
\* there and schedules nothing
UpdateFrameRaises ==
    /\ laptopCam /\ Due("frame")
    /\ \E f \in Frames(feed) : RotatedPassRaises(f)
    /\ timers' = Tail(timers)
    /\ ev' = Ev("raised")
    /\ UNCHANGED <<laptopCam, feed, driver, roi, cascade, liveVars, code, pin, selected_shop,
                   shopButtonsEnabled, takePictureEnabled, status, picVars, automation,
                   lastCands, choseSince>>

\* update_frame from "STABILITY LOGIC" on: tracking, lock-in, classification
StabilityLogic(card, pin_info) ==
    LET tc == TrackCode(potential_code, potential_code_type, potential_code_count, card)
        tp == TrackPin(potential_pin, potential_pin_count, pin_info)
        lock == LockReached(tc.count)
        is_new_lock == lock /\ IsNewLock(tc.code, stable_code)
        digits == DigitsOnly(tc.code)
        n == Len(digits)
        pinLock == lock /\ LockReached(tp.count)
        candidates == ClassifyLive(n)
    IN
    /\ tc.count <= MaxCount /\ tp.count <= MaxCount
    /\ potential_code' = tc.code
    /\ potential_code_type' = tc.type
    /\ potential_code_count' = tc.count
    /\ potential_pin' = tp.pin
    /\ potential_pin_count' = tp.count
    /\ stable_code' = IF lock THEN tc.code ELSE stable_code
    /\ code' = IF lock THEN TrimLocked(digits) ELSE code
    /\ stable_pin' = IF pinLock THEN tp.pin ELSE stable_pin
    /\ pin' = IF pinLock THEN tp.pin ELSE pin
    /\ selected_shop' = IF is_new_lock /\ Len(candidates) = 1 THEN candidates[1]
                        ELSE selected_shop
    /\ shopButtonsEnabled' = (is_new_lock \/ shopButtonsEnabled)
    /\ takePictureEnabled' = (is_new_lock \/ takePictureEnabled)
    /\ status' = IF lock
                 THEN IF is_new_lock /\ Len(candidates) = 1
                      THEN StShop("auto_selected", "green", candidates[1])
                      ELSE IF is_new_lock /\ Len(candidates) > 1
                      THEN St("ambiguous", "orange")
                      ELSE St("locked", "green")
                 ELSE IF tc.count > 0 THEN StCount("tracking", "orange", tc.count)
                 ELSE IF stable_code = EmptyText THEN St("scanning", "blue")
                 ELSE status
    /\ hist' = Push(hist, Seen(card))
    /\ lastCands' = IF is_new_lock THEN candidates ELSE lastCands
    /\ choseSince' = IF is_new_lock THEN FALSE ELSE choseSince
    /\ ev' = [Ev("scan") EXCEPT !.lock = lock, !.newLock = is_new_lock,
                                !.pinLock = pinLock,
                                !.beep = is_new_lock, !.classified = is_new_lock,
                                !.n = IF lock THEN n ELSE -1,
                                !.cands = IF is_new_lock THEN candidates ELSE <<>>]
    /\ UNCHANGED <<laptopCam, feed, driver, roi, cascade, picVars, automation>>

\* update_frame, one scan cycle on frame f
ScanCycle(f) ==
    /\ ~RotatedPassRaises(f)
    /\ StabilityLogic(CardInfo(f), Scan1d(f).pin)

UpdateFrameScan ==
    /\ laptopCam /\ Due("frame")
    /\ timers' \in AfterShort(Tail(timers), "frame")
    /\ \E f \in Frames(feed) : ScanCycle(f)

\* variant of reset_scan: the match counter is left as it is
ResetScanBody_keepsCount ==
    /\ stable_code' = EmptyText
    /\ stable_pin' = EmptyText
    /\ potential_code' = EmptyText
    /\ potential_pin' = EmptyText
    /\ potential_pin_count' = 0
    /\ shopButtonsEnabled' = FALSE
    /\ selected_shop' = NoShop
    /\ status' = St("scanning", "blue")
    /\ hist' = <<>>
    /\ lastCands' = <<>>
    /\ choseSince' = FALSE
    /\ UNCHANGED <<potential_code_type, potential_code_count, code, pin>>

\* reset_scan
ResetScanBody ==
    /\ stable_code' = EmptyText
    /\ stable_pin' = EmptyText
    /\ potential_code' = EmptyText
    /\ potential_code_count' = 0
    /\ potential_pin' = EmptyText
    /\ potential_pin_count' = 0
    /\ shopButtonsEnabled' = FALSE
    /\ selected_shop' = NoShop
    /\ status' = St("scanning", "blue")
    /\ hist' = <<>>
    /\ lastCands' = <<>>
    /\ choseSince' = FALSE
    /\ UNCHANGED <<potential_code_type, code, pin>>

\* the Take Picture button of live mode: reset_scan
ResetScan ==
    /\ laptopCam /\ takePictureEnabled
    /\ ResetScanBody
    /\ takePictureEnabled' = FALSE
    /\ ev' = Ev("reset_scan")
    /\ UNCHANGED <<laptopCam, feed, driver, roi, cascade, timers, picVars, automation>>

\* _reset_camera, the camera could not be reopened
ResetCameraFailed ==
    /\ status' = St("camera_connection_failed", "red")
    /\ ev' = Ev("idle")
    /\ UNCHANGED <<laptopCam, feed, driver, roi, cascade, timers, liveVars, code, pin, selected_shop,
                   shopButtonsEnabled, takePictureEnabled, picVars, automation,
                   lastCands, choseSince>>

\* _reset_camera in live mode: reconnect, reset_scan, enable Take Picture
ResetCameraLive ==
    /\ laptopCam
    /\ ResetScanBody
    /\ takePictureEnabled' = TRUE
    /\ ev' = Ev("reset_scan")
    /\ UNCHANGED <<laptopCam, feed, driver, roi, cascade, timers, picVars, automation>>

\* _reset_camera in picture mode: reconnect, enable Take Picture
ResetCameraPicture ==
    /\ ~laptopCam
    /\ status' = St("camera_reconnected", "green")
    /\ takePictureEnabled' = TRUE
    /\ ev' = Ev("reset_camera")
    /\ UNCHANGED <<laptopCam, feed, driver, roi, cascade, timers, liveVars, code, pin, selected_shop,
                   shopButtonsEnabled, picVars, automation, lastCands, choseSince>>

----------------------------------------------------------------------------
(* Shop selection and Fill Selected *)

\* _select_shop(name, button): a second click on the selected shop deselects it
SelectShop(name) ==
    /\ shopButtonsEnabled
    /\ selected_shop' = IF selected_shop = name THEN NoShop ELSE name
    /\ status' = IF selected_shop = name THEN St("shop_deselected", "blue")
                 ELSE StShop("selected_shop", "blue", name)
    /\ choseSince' = (selected_shop # name)
    /\ ev' = Ev("select_shop")
    /\ UNCHANGED <<laptopCam, feed, driver, roi, cascade, timers, liveVars, code, pin,
                   shopButtonsEnabled, takePictureEnabled, picVars, automation,
                   lastCands>>

\* _fill_selected_shop without a selected shop: a message box
FillNoShop ==
    /\ selected_shop = NoShop
    /\ ev' = Ev("fill_no_shop")
    /\ UNCHANGED <<laptopCam, feed, driver, roi, cascade, timers, liveVars, code, pin, selected_shop,
                   shopButtonsEnabled, takePictureEnabled, status, picVars, automation,
                   lastCands, choseSince>>

\* _manual_open_browser threads at a time
MaxBrowserWorkers == 1

\* _ensure_driver in the thread that calls it, by what the browser does: the
\* live driver answers and is reused; a browser is started and
\* _open_all_shop_tabs opens the shop tabs in it; or no browser can be started
\* (or Selenium is missing) and RuntimeError is raised.  "steps" are the
\* browser operations the calling thread waits for.
EnsureDriver(alive) ==
    LET probe == IF alive THEN {"probe"} ELSE {} IN
    (IF alive THEN {[alive |-> TRUE, started |-> FALSE, raised |-> FALSE,
                     steps |-> probe]}
     ELSE {})
    \cup {[alive |-> TRUE, started |-> TRUE, raised |-> FALSE,
           steps |-> probe \cup {"start_browser", "open_tabs"}],
          [alive |-> FALSE, started |-> FALSE, raised |-> TRUE,
           steps |-> probe \cup {"start_browser"}]}

\* _ensure_driver not called
NoEnsure(alive) == [alive |-> alive, started |-> FALSE, raised |-> FALSE, steps |-> {}]

\* the Start Browser button: _manual_open_browser starts its worker thread
StartBrowser ==
    /\ driver.workers < MaxBrowserWorkers
    /\ driver' = [driver EXCEPT !.workers = @ + 1]
    /\ ev' = Ev("start_browser")
    /\ UNCHANGED <<laptopCam, feed, roi, cascade, timers, liveVars, code, pin,
                   selected_shop, shopButtonsEnabled, takePictureEnabled, status,
                   picVars, automation, lastCands, choseSince>>

\* the worker of _manual_open_browser, on its thread
BrowserWorker ==
    /\ driver.workers > 0
    /\ \E o \in EnsureDriver(driver.alive) :
           /\ driver' = [alive |-> o.alive, workers |-> driver.workers - 1]
           /\ status' = IF o.raised THEN St("error_opening_browser", "red")
                        ELSE IF o.started THEN St("browser_started", "green")
                        ELSE St("opening_browser", "blue")
    /\ ev' = Ev("browser_worker")
    /\ UNCHANGED <<laptopCam, feed, roi, cascade, timers, liveVars, code, pin,
                   selected_shop, shopButtonsEnabled, takePictureEnabled,
                   picVars, automation, lastCands, choseSince>>

\* _fill_selected_shop: validate the digits of the code field for the selected
\* shop; when valid write the corrected digits back and start _open_shop
FillSelectedShop ==
    LET digits == DigitsOnly(code)
        v == ValidateFor(selected_shop, digits)
    IN
    /\ selected_shop # NoShop
    /\ v.ok => Len(automation) < MaxAutomation
    /\ code' = IF v.ok /\ v.corrected # digits THEN v.corrected ELSE code
    /\ automation' = IF v.ok
                     THEN Append(automation, [shop |-> selected_shop,
                                              validated |-> v.corrected])
                     ELSE automation
    /\ \E o \in IF v.ok THEN EnsureDriver(driver.alive) ELSE {NoEnsure(driver.alive)} :
           \* except Exception: self._manual_open_browser()
           /\ o.raised => driver.workers < MaxBrowserWorkers
           /\ driver' = [alive |-> o.alive,
                         workers |-> driver.workers + (IF o.raised THEN 1 ELSE 0)]
           /\ status' = IF o.started THEN St("browser_started", "green") ELSE status
           /\ ev' = [Ev("fill") EXCEPT !.fillOk = v.ok, !.n = v.n,
                                       !.fillShop = selected_shop,
                                       !.fillCard = IF v.ok THEN v.corrected ELSE <<>>,
                                       !.validated = IF v.ok THEN v.corrected ELSE <<>>,
                                       !.ui = o.steps]
    /\ UNCHANGED <<laptopCam, feed, roi, cascade, timers, liveVars, pin, selected_shop,
                   shopButtonsEnabled, takePictureEnabled, picVars,
                   lastCands, choseSince>>

\* _open_shop on its thread: reads the code field and hands it to _open_and_fill.
\* The thread is given the shop, not the digits: "validated" only remembers
\* what _fill_selected_shop had validated when it started the thread.
OpenShop ==
    LET code_text == Strip(code) IN
    /\ automation # <<>>
    /\ automation' = Tail(automation)
    /\ \E o \in IF code_text = EmptyText THEN {NoEnsure(driver.alive)}
                 ELSE EnsureDriver(driver.alive) :
           /\ driver' = [driver EXCEPT !.alive = o.alive]
           /\ status' = IF code_text = EmptyText THEN St("no_code_to_send", "red")
                        ELSE IF o.started THEN St("browser_started", "green")
                        ELSE status
    /\ ev' = [Ev("open_shop") EXCEPT !.fillShop = Head(automation).shop,
                                     !.fillCard = code_text,
                                     !.fillOk = (code_text # EmptyText),
                                     !.validated = Head(automation).validated]
    /\ UNCHANGED <<laptopCam, feed, roi, cascade, timers, liveVars, code, pin, selected_shop,
                   shopButtonsEnabled, takePictureEnabled, picVars, lastCands,
                   choseSince>>

----------------------------------------------------------------------------
(* Picture mode *)

\* _take_picture, the capture failed
TakePictureFailed ==
    /\ ~laptopCam /\ takePictureEnabled
    /\ status' = St("capture_failed", "red")
    /\ ev' = Ev("capture_failed")
    /\ UNCHANGED <<laptopCam, feed, driver, roi, cascade, timers, liveVars, code, pin, selected_shop,
                   shopButtonsEnabled, takePictureEnabled, picVars, automation,
                   lastCands, choseSince>>

\* _take_picture: freeze the frame, start the worker, schedule _auto_unfreeze
TakePicture ==
    /\ ~laptopCam /\ takePictureEnabled
    /\ \E f \in Frames(feed) : frozen_frame' = f
    /\ picture_mode' = TRUE
    /\ takePictureEnabled' = FALSE
    /\ status' = St("processing", "orange")
    /\ workers' = Append(workers, [pc |-> "check", crop |-> NoFrame])
    /\ timers' = Append(timers, "unfreeze")
    /\ ev' = Ev("take_picture")
    /\ UNCHANGED <<laptopCam, feed, driver, roi, cascade, liveVars, code, pin, selected_shop,
                   shopButtonsEnabled, automation, lastCands, choseSince>>

\* the user presses Take Picture only when the previous picture is done with:
\* its worker has ended and its _auto_unfreeze timer has fired
PreviousPictureDone ==
    /\ workers = <<>>
    /\ \A k \in 1..Len(timers) : timers[k] # "unfreeze"

TakePictureWhenDone == PreviousPictureDone /\ TakePicture

\* _auto_unfreeze: nothing when picture_mode is already off; else leave picture
\* mode, drop the frame and call update_live_video, which schedules itself
AutoUnfreeze ==
    /\ Due("unfreeze")
    /\ IF ~picture_mode
       THEN /\ timers' = Tail(timers)
            /\ UNCHANGED <<picture_mode, frozen_frame, takePictureEnabled, status>>
       ELSE /\ picture_mode' = FALSE
            /\ frozen_frame' = NoFrame
            /\ takePictureEnabled' = TRUE
            /\ status' = St("live_video", "blue")
            /\ timers' \in AfterShort(Tail(timers), "live")
    /\ ev' = Ev("auto_unfreeze")
    /\ UNCHANGED <<laptopCam, feed, driver, roi, cascade, liveVars, code, pin, selected_shop,
                   shopButtonsEnabled, workers, automation, lastCands, choseSince>>

\* update_live_video: return in picture mode (the chain ends), else show the
\* frame (or not) and reschedule
UpdateLiveVideo ==
    /\ Due("live")
    /\ timers' \in IF picture_mode THEN {Tail(timers)}
                   ELSE AfterShort(Tail(timers), "live")
    /\ ev' = Ev("idle")
    /\ UNCHANGED <<laptopCam, feed, driver, roi, cascade, liveVars, code, pin, selected_shop,
                   shopButtonsEnabled, takePictureEnabled, status, picVars, automation,
                   lastCands, choseSince>>

WorkerAt(i, pc) == i \in 1..Len(workers) /\ workers[i].pc = pc

RemoveAt(s, i) == [j \in 1..(Len(s) - 1) |-> IF j < i THEN s[j] ELSE s[j + 1]]

WorkerOnly ==
    UNCHANGED <<laptopCam, feed, driver, roi, cascade, timers, liveVars, code, pin, selected_shop,
                shopButtonsEnabled, takePictureEnabled, status, picture_mode,
                frozen_frame, automation, lastCands, choseSince>>

\* _process_frozen_frame: return when there is no frozen frame
WorkerCheck(i) ==
    /\ WorkerAt(i, "check")
    /\ workers' = IF frozen_frame = NoFrame THEN RemoveAt(workers, i)
                  ELSE [workers EXCEPT ![i].pc = "shape"]
    /\ ev' = Ev("worker")
    /\ WorkerOnly

\* self.frozen_frame.shape: raises when the frame was dropped meanwhile
WorkerShape(i) ==
    /\ WorkerAt(i, "shape")
    /\ workers' = IF frozen_frame = NoFrame THEN RemoveAt(workers, i)
                  ELSE [workers EXCEPT ![i].pc = "crop"]
    /\ ev' = Ev(IF frozen_frame = NoFrame THEN "worker_raised" ELSE "worker")
    /\ WorkerOnly

\* crop = self.frozen_frame[y0:y1, x0:x1] and the scan of the crop, direct and
\* rotated; raises when the frame was dropped or the rotated polygon is empty
WorkerCrop(i) ==
    /\ WorkerAt(i, "crop")
    /\ workers' = IF frozen_frame = NoFrame \/ RotatedPassRaises(frozen_frame)
                  THEN RemoveAt(workers, i)
                  ELSE [workers EXCEPT ![i] = [pc |-> "update", crop |-> frozen_frame]]
    /\ ev' = Ev(IF frozen_frame = NoFrame \/ RotatedPassRaises(frozen_frame)
                THEN "worker_raised" ELSE "worker")
    /\ WorkerOnly

\* "Update UI with results": code field, shop buttons, classification, beep
WorkerUpdate(i) ==
    LET card == CardInfo(workers[i].crop)
        found == card # NoCard
        digits == DigitsOnly(card.txt)
        n == Len(digits)
        candidates == ClassifyPicture(n)
    IN
    /\ WorkerAt(i, "update")
    /\ workers' = [workers EXCEPT ![i].pc = "display_check"]
    /\ code' = IF found THEN card.txt ELSE code
    /\ shopButtonsEnabled' = (found \/ shopButtonsEnabled)
    /\ selected_shop' = IF found /\ Len(candidates) = 1 THEN candidates[1]
                        ELSE selected_shop
    /\ status' = IF ~found THEN St("no_code_found", "red")
                 ELSE IF Len(candidates) = 1
                 THEN StShop("auto_selected", "green", candidates[1])
                 ELSE IF Len(candidates) > 1 THEN St("ambiguous", "orange")
                 ELSE StCount("no_match", "red", n)
    /\ lastCands' = IF found THEN candidates ELSE lastCands
    /\ choseSince' = IF found THEN FALSE ELSE choseSince
    /\ ev' = [Ev("picture") EXCEPT !.classified = found, !.beep = found,
                                   !.n = IF found THEN n ELSE -1,
                                   !.cands = IF found THEN candidates ELSE <<>>]
    /\ UNCHANGED <<laptopCam, feed, driver, roi, cascade, timers, liveVars, pin, takePictureEnabled,
                   picture_mode, frozen_frame, automation>>

\* _display_frozen_frame: return when there is no frozen frame
WorkerDisplayCheck(i) ==
    /\ WorkerAt(i, "display_check")
    /\ workers' = IF frozen_frame = NoFrame THEN RemoveAt(workers, i)
                  ELSE [workers EXCEPT ![i].pc = "display_copy"]
    /\ ev' = Ev("worker")
    /\ WorkerOnly

\* vis = self.frozen_frame.copy() and the drawing: raises when the frame was
\* dropped meanwhile; the thread ends either way
WorkerDisplayCopy(i) ==
    /\ WorkerAt(i, "display_copy")
    /\ workers' = RemoveAt(workers, i)
    /\ ev' = Ev(IF frozen_frame = NoFrame THEN "worker_raised" ELSE "worker_done")
    /\ WorkerOnly

Worker(i) ==
    \/ WorkerCheck(i)
    \/ WorkerShape(i)
    \/ WorkerCrop(i)
    \/ WorkerUpdate(i)
    \/ WorkerDisplayCheck(i)
    \/ WorkerDisplayCopy(i)

----------------------------------------------------------------------------
\* the scanning core: live scan cycles, picture capture and processing, reset,
\* shop selection
Next ==
    \/ UpdateFrameReadFailed
    \/ UpdateFrameThrottled
    \/ UpdateFrameRaises
    \/ UpdateFrameScan
    \/ ResetScan
    \/ ResetCameraFailed
    \/ ResetCameraLive
    \/ ResetCameraPicture
    \/ \E name \in Shops : SelectShop(name)
    \/ TakePictureFailed
    \/ TakePictureWhenDone
    \/ AutoUnfreeze
    \/ UpdateLiveVideo
    \/ \E i \in 1..Len(workers) : Worker(i)

Spec == Init /\ [][Next]_vars

\* live scanning of two cards with Fill Selected and its automation thread
InitFill == InitWith(TRUE, FillFeed)

NextFill ==
    \/ UpdateFrameReadFailed
    \/ UpdateFrameThrottled
    \/ UpdateFrameRaises
    \/ UpdateFrameScan
    \/ ResetScan
    \/ \E name \in Shops : SelectShop(name)
    \/ FillNoShop
    \/ FillSelectedShop
    \/ OpenShop

SpecFill == InitFill /\ [][NextFill]_vars

\* live scanning of one card with the browser: the Start Browser button, Fill
\* Selected and the threads they start
BrowserFeed == {Symbol(T20, "CODE128")}

InitBrowser == InitWith(TRUE, BrowserFeed)

NextBrowser ==
    \/ UpdateFrameThrottled
    \/ UpdateFrameScan
    \/ ResetScan
    \/ \E name \in Shops : SelectShop(name)
    \/ FillSelectedShop
    \/ OpenShop
    \/ StartBrowser
    \/ BrowserWorker

SpecBrowser == InitBrowser /\ [][NextBrowser]_vars

\* pictures taken as soon as the button allows it, in a run with one card
MaxWorkers == 2
\* callbacks queued at a time
MaxTimers == 3

PicFeed == {Symbol(T13, "CODE128")}

InitPic == \E cam \in BOOLEAN : InitWith(cam, PicFeed)

TakePictureBounded ==
    /\ Len(workers) < MaxWorkers
    /\ Len(timers) < MaxTimers
    /\ TakePicture

AutoUnfreezeBounded ==
    /\ Len(timers) <= MaxTimers
    /\ AutoUnfreeze

NextPic ==
    \/ UpdateFrameReadFailed
    \/ UpdateFrameThrottled
    \/ UpdateFrameRaises
    \/ UpdateFrameScan
    \/ ResetScan
    \/ ResetCameraFailed
    \/ ResetCameraLive
    \/ ResetCameraPicture
    \/ TakePictureFailed
    \/ TakePictureBounded
    \/ AutoUnfreezeBounded
    \/ UpdateLiveVideo
    \/ \E i \in 1..Len(workers) : Worker(i)

SpecPic == InitPic /\ [][NextPic]_vars

\* Fill Selected on code fields of every length: the state after a picture of
\* a card (raw text in the code field, shop buttons enabled, a shop chosen or
\* not), and live scanning of a card of every length
RawCodes == {Digs(n) : n \in 0..MaxDigits} \cup {DigsFrom(3, n) : n \in 0..MaxDigits}
                \cup {M38}

InitValidate ==
    \/ \E f \in LenFeeds : InitWith(TRUE, f)
    \/ /\ laptopCam = FALSE
       /\ feed = {}
       /\ timers = <<"live">>
       /\ potential_code = EmptyText
       /\ potential_code_type = ""
       /\ potential_code_count = 0
       /\ stable_code = EmptyText
       /\ potential_pin = EmptyText
       /\ potential_pin_count = 0
       /\ stable_pin = EmptyText
       /\ code \in RawCodes
       /\ pin = EmptyText
       /\ selected_shop = IF Len(ClassifyPicture(Len(DigitsOnly(code)))) = 1
                          THEN ClassifyPicture(Len(DigitsOnly(code)))[1] ELSE NoShop
       /\ shopButtonsEnabled = TRUE
       /\ takePictureEnabled = TRUE
       /\ status = St("live_video", "blue")
       /\ picture_mode = FALSE
       /\ frozen_frame = NoFrame
       /\ workers = <<>>
       /\ roi = NoRoi
       /\ cascade = NoCascade
       /\ automation = <<>>
       /\ driver = [alive |-> FALSE, workers |-> 0]
       /\ hist = <<>>
       /\ lastCands = ClassifyPicture(Len(DigitsOnly(code)))
       /\ choseSince = FALSE
       /\ ev = Ev("auto_unfreeze")

NextValidate ==
    \/ UpdateFrameScan
    \/ \E name \in Shops : SelectShop(name)
    \/ FillNoShop
    \/ FillSelectedShop
    \/ OpenShop

SpecValidate == InitValidate /\ [][NextValidate]_vars

\* _compute_roi_rect on frames of every small shape
MaxWidth == 12
MaxHeight == 181

InitRoi ==
    /\ InitBase(TRUE, {})
    /\ \E w \in 1..MaxWidth, h \in 1..MaxHeight :
           roi = [w |-> w, h |-> h, x0 |-> 0, y0 |-> 0, x1 |-> 0, y1 |-> 0,
                  done |-> FALSE]
    /\ cascade = NoCascade

\* h, w = frame.shape[:2]; roi = self._compute_roi_rect(w, h)
FrameRoi ==
    LET r == ComputeRoiRect(roi.w, roi.h) IN
    /\ ~roi.done
    /\ roi' = [w |-> roi.w, h |-> roi.h, x0 |-> r.x0, y0 |-> r.y0, x1 |-> r.x1,
               y1 |-> r.y1, done |-> TRUE]
    /\ UNCHANGED <<laptopCam, feed, driver, cascade, timers, liveVars, code, pin, selected_shop,
                   shopButtonsEnabled, takePictureEnabled, status, picVars, automation,
                   lastCands, choseSince, ev>>

NextRoi == FrameRoi

SpecRoi == InitRoi /\ [][NextRoi]_vars

\* _scan_1d on images in which at most MaxHits attempts would decode, with the
\* OCR fallback switched on or off (OCR_SWITCH, a source-level setting)
MaxHits == 2

AllAttempts == {CascadeOrder(TRUE)[k] : k \in 1..Len(CascadeOrder(TRUE))}

RECURSIVE ImagesUpTo(_)
ImagesUpTo(n) == IF n = 0 THEN {{}}
                 ELSE ImagesUpTo(n - 1) \cup
                      {s \cup {a} : s \in ImagesUpTo(n - 1), a \in AllAttempts}

InitCascade ==
    /\ InitBase(TRUE, {})
    /\ roi = NoRoi
    /\ \E img \in ImagesUpTo(MaxHits), ocr \in BOOLEAN :
           cascade = [img |-> img, ocr |-> ocr, tried |-> <<>>, result |-> NoAttempt,
                      done |-> FALSE]

\* decoded_dict = self._scan_1d(crop)
Scan1dCall ==
    LET r == RunCascade(cascade.img, cascade.ocr) IN
    /\ ~cascade.done
    /\ cascade' = [cascade EXCEPT !.tried = r.tried, !.result = r.result, !.done = TRUE]
    /\ UNCHANGED <<laptopCam, feed, driver, roi, timers, liveVars, code, pin, selected_shop,
                   shopButtonsEnabled, takePictureEnabled, status, picVars, automation,
                   lastCands, choseSince, ev>>

NextCascade == Scan1dCall

SpecCascade == InitCascade /\ [][NextCascade]_vars

\* the rotated pass of update_frame and _process_frozen_frame: _scan_1d on the
\* crop, then _scan_barcodes_only on the crop rotated by 90 degrees clockwise.
\* The rotated crop is rw pixels wide and 2 pixels high; a decoded symbol has
\* the polygon rpoly (pyzbar may deliver none).
MaxRotHits == 1
MaxRotW == 2

\* _scan_barcodes_only: decode(closed), then decode(sharp)
BarcodesOnlyOrder == Attempts("direct", <<"closed", "sharp">>, <<"-">>)

RunBarcodesOnly(img) ==
    LET order == BarcodesOnlyOrder
        hits == {k \in 1..Len(order) : order[k] \in img}
    IN IF hits = {} THEN [tried |-> order, result |-> NoAttempt]
       ELSE [tried |-> SubSeq(order, 1, MinOf(hits)), result |-> order[MinOf(hits)]]

\* poly_back = np.stack([poly[:, 1], W - 1 - poly[:, 0]], axis=1)
PolyBack(poly, W) == [k \in 1..Len(poly) |-> <<poly[k][2], W - 1 - poly[k][1]>>]

Polygons(W) == {<<>>} \cup {<<<<x, y>>, <<W - 1 - x, 1 - y>>>> : x \in 0..(W - 1), y \in 0..1}

InitRotated ==
    /\ InitBase(TRUE, {})
    /\ roi = NoRoi
    /\ \E img \in ImagesUpTo(1), rimg \in ImagesUpTo(MaxRotHits), ocr \in BOOLEAN,
          W \in 1..MaxRotW :
         \E poly \in Polygons(W) :
           cascade = [img |-> img, ocr |-> ocr, tried |-> <<>>, result |-> NoAttempt,
                      rimg |-> rimg, rw |-> W, rpoly |-> poly, rtried |-> <<>>,
                      rresult |-> NoAttempt, back |-> <<>>, raised |-> FALSE,
                      done |-> FALSE]

\* decoded_dict = self._scan_1d(crop); if not card_info: the rotated pass
RotatedPass ==
    LET r == RunCascade(cascade.img, cascade.ocr)
        rr == RunBarcodesOnly(cascade.rimg)
    IN
    /\ ~cascade.done
    /\ IF r.result # NoAttempt
       THEN cascade' = [cascade EXCEPT !.tried = r.tried, !.result = r.result,
                                       !.done = TRUE]
       ELSE IF rr.result = NoAttempt
       THEN cascade' = [cascade EXCEPT !.tried = r.tried, !.rtried = rr.tried,
                                       !.done = TRUE]
       ELSE IF cascade.rpoly = <<>>
       THEN cascade' = [cascade EXCEPT !.tried = r.tried, !.rtried = rr.tried,
                                       !.rresult = rr.result, !.raised = TRUE,
                                       !.done = TRUE]
       ELSE cascade' = [cascade EXCEPT !.tried = r.tried, !.rtried = rr.tried,
                                       !.rresult = rr.result,
                                       !.back = PolyBack(cascade.rpoly, cascade.rw),
                                       !.done = TRUE]
    /\ UNCHANGED <<laptopCam, feed, driver, roi, timers, liveVars, code, pin, selected_shop,
                   shopButtonsEnabled, takePictureEnabled, status, picVars, automation,
                   lastCands, choseSince, ev>>

NextRotated == RotatedPass

SpecRotated == InitRotated /\ [][NextRotated]_vars

\* the stability logic of update_frame fed by the combined barcode and PIN
\* decoder _scan_1d_and_PIN.  update_frame as wired calls _scan_1d, whose "pin"
\* is None on every path; this specification is the one in which a PIN
\* candidate reaches the tracker at all.
PinFrames == {[barcode |-> b, lines |-> l] :
                 b \in {NoCard,
                        [txt |-> T_AAA, sym |-> "CODE128", npoly |-> 4, via |-> "direct"],
                        [txt |-> T_BBB, sym |-> "QRCODE", npoly |-> 4, via |-> "direct"]},
                 l \in {<<>>, <<<<P1234>>>>, <<<<T12>>, <<T12, P5678, P1234>>>>,
                        <<<<Digs(10), T13>>, <<P5678>>>>}}

InitPin == InitWith(TRUE, {})

UpdateFramePinScan ==
    /\ laptopCam /\ Due("frame")
    /\ timers' \in AfterShort(Tail(timers), "frame")
    /\ \E pf \in PinFrames :
           StabilityLogic(Scan1dAndPin(pf).card, Scan1dAndPin(pf).pin)

NextPin ==
    \/ UpdateFramePinScan
    \/ UpdateFrameThrottled
    \/ ResetScan

SpecPin == InitPin /\ [][NextPin]_vars

----------------------------------------------------------------------------
(* Properties *)

\* the last STABLE_THRESHOLD scan cycles since the last reset all produced the
\* same candidate text
Uniform(h) == /\ Len(h) = STABLE_THRESHOLD
              /\ \A k \in 1..Len(h) : h[k].some /\ h[k].txt = h[1].txt

OnlyDigits(s) == \A k \in 1..Len(s) : s[k] \in DigitChars

Range(s) == {s[k] : k \in 1..Len(s)}

\* C1: no false lock.  A scan cycle locks a text (assigns _stable_code) only
\* when that cycle and the STABLE_THRESHOLD-1 scan cycles before it all
\* produced that text; a stream without such a run never locks.
C1_NoFalseLock ==
    (ev.op = "scan" /\ ev.lock) =>
        (Uniform(hist) /\ hist[1].txt = stable_code /\ potential_code = stable_code)

C1_Witness ==
    /\ ev.op = "scan" /\ ev.lock /\ ev.newLock
    /\ stable_code = T_BBB
    /\ hist = <<Seen(Symbol(T_BBB, "QRCODE")), Seen(Symbol(T_BBB, "QRCODE")),
                Seen(Symbol(T_BBB, "QRCODE"))>>

\* C2: lock timing.  A scan cycle locks exactly when it completes a run of
\* STABLE_THRESHOLD equal candidates (the counter has reached the threshold),
\* never while the counter is below it; the lock of 1234567890123 classifies
\* it as REWE alone and selects REWE.
C2_LockTiming ==
    /\ (ev.op = "scan" /\ Uniform(hist)) =>
           (ev.lock /\ stable_code = hist[1].txt
                    /\ potential_code_count >= STABLE_THRESHOLD)
    /\ (ev.op = "scan" /\ potential_code_count < STABLE_THRESHOLD) => ~ev.lock
    /\ (ev.op = "scan" /\ ev.newLock /\ stable_code = T13) =>
           (ev.cands = <<"REWE">> /\ selected_shop = "REWE"
                                  /\ status.kind = "auto_selected")

C2_Witness ==
    /\ ev.op = "scan" /\ ev.newLock
    /\ stable_code = T13
    /\ potential_code_count = STABLE_THRESHOLD
    /\ selected_shop = "REWE"

\* C3: idempotent re-lock.  A scan cycle at or above the threshold whose text
\* is the locked text changes neither the shop selection nor the buttons and
\* does not beep or classify; a lock of another text classifies and beeps in
\* that cycle; a cycle right after a classifying one with the same text does
\* not classify again.
C3_Step ==
    (ev'.op = "scan") =>
        /\ (ev'.lock /\ potential_code' = stable_code) =>
               /\ selected_shop' = selected_shop
               /\ shopButtonsEnabled' = shopButtonsEnabled
               /\ takePictureEnabled' = takePictureEnabled
               /\ ~ev'.beep /\ ~ev'.classified
        /\ (ev'.lock /\ potential_code' # stable_code) =>
               /\ ev'.classified /\ ev'.beep
               /\ shopButtonsEnabled' /\ takePictureEnabled'
        /\ ~ev'.lock => (~ev'.classified /\ ~ev'.beep)
        /\ (ev.op = "scan" /\ ev.classified /\ potential_code' = potential_code) =>
               ~ev'.classified

C3_IdempotentRelock == [][C3_Step]_vars

C3_Witness ==
    /\ ev.op = "scan" /\ ev.lock /\ ~ev.newLock /\ ~ev.beep
    /\ stable_code = M38
    /\ potential_code_count = STABLE_THRESHOLD + 1

\* C4: at every lock the code field holds the digits of the locked text, and
\* of 38 digits the last 20; a 38-digit text locks to its last 20 digits and
\* is classified ALDI/LIDL, ambiguous.
C4_ExposedCode ==
    (ev.op = "scan" /\ ev.lock) =>
        LET d == DigitsOnly(stable_code) IN
        /\ OnlyDigits(code)
        /\ Len(d) = 38 => (Len(code) = 20 /\ \A k \in 1..20 : code[k] = d[18 + k])
        /\ Len(d) # 38 => code = d
        /\ (ev.newLock /\ Len(d) = 38) =>
               (Range(ev.cands) = {"ALDI", "LIDL"} /\ status.kind = "ambiguous")

C4_Witness ==
    /\ ev.op = "scan" /\ ev.newLock
    /\ stable_code = M38
    /\ code = DigsFrom(3, 20)
    /\ lastCands = <<"ALDI", "LIDL">>

ShopOf(n) == IF n = 13 THEN "REWE" ELSE IF n = 24 THEN "DM" ELSE "EDEKA"

\* C5: a classification (at a new lock, or of a captured picture) of 13, 24 or
\* 16 digits yields exactly REWE, DM or EDEKA, selects it and is not flagged
\* ambiguous.
C5_SingleShop ==
    (ev.classified /\ ev.n \in {13, 24, 16}) =>
        /\ ev.cands = <<ShopOf(ev.n)>>
        /\ selected_shop = ShopOf(ev.n)
        /\ status.kind = "auto_selected" /\ status.shop = ShopOf(ev.n)

C5_Witness ==
    /\ ~laptopCam /\ ev.op = "picture" /\ ev.classified
    /\ ev.n = 16 /\ selected_shop = "EDEKA"

\* C6: a classification of 20 digits, or of 38 digits counted before the
\* correction, yields the pair ALDI, LIDL and is flagged ambiguous.
C6_AmbiguousPair ==
    (ev.classified /\ ev.n \in {20, 38}) =>
        /\ Range(ev.cands) = {"ALDI", "LIDL"} /\ Len(ev.cands) = 2
        /\ status.kind = "ambiguous"

C6_Witness ==
    /\ laptopCam /\ ev.op = "scan" /\ ev.classified
    /\ ev.n = 38 /\ status.kind = "ambiguous"

\* C7: a classification of any other digit count yields no candidate.
C7_NoCandidate ==
    (ev.classified /\ ev.n \notin {13, 16, 20, 24, 38}) => ev.cands = <<>>

C7_Witness ==
    /\ ~laptopCam /\ ev.op = "picture" /\ ev.classified
    /\ ev.n = 19 /\ ev.cands = <<>>

\* C8: ambiguity is never resolved by the core.  A single candidate is the
\* selected shop; while the latest classification is ambiguous, Fill Selected
\* goes ahead only with a shop the user picked after that classification.
C8_AmbiguityLeftToUser ==
    /\ (ev.classified /\ Len(ev.cands) = 1) => selected_shop = ev.cands[1]
    /\ (ev.op = "fill" /\ ev.fillOk /\ Len(lastCands) > 1) => choseSince

\* C9: a new lock or a captured code whose digit count matches no shop is
\* reported as "no match" with the digit count, not as a success.
C9_NoMatchReported ==
    (ev.classified /\ ev.cands = <<>>) =>
        (status.kind = "no_match" /\ status.n = ev.n /\ status.color = "red")

\* C10 as stated: reset_scan empties the tracker and the exposed code and PIN.
C10_ResetClearsExposed ==
    (ev.op = "reset_scan") =>
        /\ potential_code = EmptyText /\ potential_code_count = 0
        /\ potential_pin = EmptyText /\ potential_pin_count = 0
        /\ stable_code = EmptyText /\ stable_pin = EmptyText
        /\ code = EmptyText /\ pin = EmptyText

C10_Step ==
    (ev'.op = "reset_scan") =>
        /\ potential_code' = EmptyText /\ potential_code_count' = 0
        /\ potential_pin' = EmptyText /\ potential_pin_count' = 0
        /\ stable_code' = EmptyText /\ stable_pin' = EmptyText
        /\ hist' = <<>>
        /\ code' = code /\ pin' = pin
        /\ potential_code_type' = potential_code_type

\* C10: reset_scan empties the tracked code and PIN, their counters and the
\* locked code and PIN, so that a lock needs a full run again; it keeps the
\* code and PIN fields and the tracked symbology.
C10_ResetClearsTracker == [][C10_Step]_vars

C10_Witness ==
    /\ ev.op = "reset_scan"
    /\ code = T13
    /\ stable_code = EmptyText /\ potential_code_count = 0

NoneSeen(h) == \A k \in 1..Len(h) : ~h[k].some

\* C12: decode exhaustion is not an error.  A scan cycle without a candidate
\* leaves the tracked text empty and its counter 0, locks nothing, classifies
\* nothing and does not beep; while nothing is locked the status is the
\* "Scanning..." line, cycle after cycle.
C12_DecodeExhaustion ==
    (ev.op = "scan" /\ hist # <<>> /\ ~hist[Len(hist)].some) =>
        /\ potential_code = EmptyText /\ potential_code_count = 0
        /\ ~ev.lock /\ ~ev.classified /\ ~ev.beep
        /\ (stable_code = EmptyText => status = St("scanning", "blue"))

C12_Witness ==
    /\ ev.op = "scan"
    /\ Len(hist) = STABLE_THRESHOLD /\ NoneSeen(hist)
    /\ stable_code = EmptyText /\ potential_code_count = 0
    /\ status.kind = "scanning"

\* C14: keep retrying.  In live mode the next run of update_frame is always
\* scheduled, whatever the last run found.
C14_AlwaysRescheduled ==
    laptopCam => \E k \in 1..Len(timers) : timers[k] = "frame"

\* C16: the card string handed to the automation is the corrected digit string
\* that _fill_selected_shop validated when it started the hand-off, with the
\* shop it was validated for.
C16_HandsOverValidated ==
    (ev.op = "open_shop") =>
        (ev.fillOk /\ ev.fillCard = ev.validated
                   /\ ValidateFor(ev.fillShop, ev.fillCard).ok)

C13_Step ==
    /\ (ev'.op = "read_failed") =>
           /\ liveVars' = liveVars
           /\ code' = code /\ pin' = pin /\ selected_shop' = selected_shop
           /\ \E k \in 1..Len(timers') : timers'[k] = "frame"
    /\ (ev'.op = "capture_failed") =>
           /\ picVars' = picVars /\ timers' = timers
           /\ liveVars' = liveVars /\ code' = code

\* C13: an acquisition failure skips the cycle.  A failed read in update_frame
\* attempts no decode, leaves the tracked and locked values unchanged and
\* schedules the next run; a failed capture leaves picture_mode and the frozen
\* frame unchanged, starts no worker and no timer.
C13_FailureSkips == [][C13_Step]_vars

C13_Witness ==
    /\ ev.op = "read_failed"
    /\ potential_code = T13 /\ potential_code_count = 2
    /\ timers = <<"frame">>

\* C15: one scan at a time.  At most one _process_frozen_frame worker exists,
\* and at most one run of update_frame is scheduled.
C15_OneScanInFlight ==
    /\ Len(workers) <= 1
    /\ Cardinality({k \in 1..Len(timers) : timers[k] = "frame"}) <= 1

\* the digit counts a shop accepts
Accepts(shop, n) ==
    \/ shop = "REWE" /\ n = 13
    \/ shop = "DM" /\ n = 24
    \/ shop \in {"ALDI", "LIDL"} /\ n \in {20, 38}
    \/ shop = "EDEKA" /\ n \in {19, 32}

\* the string a shop accepts ds as: ds, or for 38 digits of ALDI/LIDL its last
\* 20, or for 32 digits of EDEKA its digits 12..16 followed by its digits 19..32
Accepted(shop, ds) ==
    IF shop \in {"ALDI", "LIDL"} /\ Len(ds) = 38 THEN [i \in 1..20 |-> ds[18 + i]]
    ELSE IF shop = "EDEKA" /\ Len(ds) = 32
    THEN [i \in 1..19 |-> IF i <= 5 THEN ds[11 + i] ELSE ds[13 + i]]
    ELSE ds

C17_Step ==
    (ev'.op = "fill") =>
        LET ds == DigitsOnly(code)
            shop == selected_shop
        IN /\ ev'.fillShop = shop /\ ev'.n = Len(ds)
           /\ ev'.fillOk = Accepts(shop, Len(ds))
           /\ ev'.fillOk =>
                  /\ ev'.fillCard = Accepted(shop, ds)
                  /\ code' = IF Accepted(shop, ds) # ds THEN Accepted(shop, ds) ELSE code
           /\ ~ev'.fillOk => (code' = code /\ automation' = automation)

\* C17: Fill Selected validates the digits ds of the code field for the
\* selected shop: REWE 13, DM 24, ALDI/LIDL 20 or 38 (last 20 kept), EDEKA 19
\* or 32 (digits [11:16] and [18:] kept, 19 digits); any other count is
\* rejected with that count and the code field is left as it was.
C17_ValidationTable == [][C17_Step]_vars

C17_Witness ==
    /\ ev.op = "fill" /\ ev.fillOk
    /\ ev.fillShop = "EDEKA" /\ ev.n = 32
    /\ code = DigsFrom(11, 5) \o DigsFrom(18, 14)

\* C20: the 38->20 correction is idempotent.  The digits put into the code
\* field at a lock are a fixed point of the correction, 38 digits having
\* become 20; digits accepted for ALDI or LIDL are accepted unchanged when
\* validated again.
C20_CorrectionIdempotent ==
    /\ (ev.op = "scan" /\ ev.lock) =>
           /\ code = TrimLocked(DigitsOnly(stable_code))
           /\ TrimLocked(code) = code
           /\ Len(DigitsOnly(stable_code)) = 38 => Len(code) = 20
    /\ (ev.op = "fill" /\ ev.fillOk /\ ev.fillShop \in {"ALDI", "LIDL"}) =>
           /\ Len(ev.fillCard) = 20
           /\ TrimLocked(ev.fillCard) = ev.fillCard
           /\ ValidateFor(ev.fillShop, ev.fillCard).ok
           /\ ValidateFor(ev.fillShop, ev.fillCard).corrected = ev.fillCard

C20_Witness ==
    /\ ev.op = "fill" /\ ev.fillOk /\ ev.fillShop = "LIDL"
    /\ ev.n = 20
    /\ stable_code = Digs(38)
    /\ ev.fillCard = DigsFrom(18, 20)

\* C18: the ROI rectangle of a frame of positive width and height lies in the
\* frame and is not empty, is floor(0.90 width) wide and floor(0.35 height)
\* high, and is centered up to one pixel.
C18_RoiWellFormed ==
    roi.done =>
        /\ 0 <= roi.x0 /\ roi.x0 < roi.x1 /\ roi.x1 <= roi.w
        /\ 0 <= roi.y0 /\ roi.y0 < roi.y1 /\ roi.y1 <= roi.h
        /\ roi.x1 - roi.x0 = (90 * roi.w) \div 100
        /\ roi.y1 - roi.y0 = (35 * roi.h) \div 100
        /\ (roi.w - roi.x1) - roi.x0 \in {0, 1}
        /\ (roi.h - roi.y1) - roi.y0 \in {0, 1}

Tried(stage) == {k \in 1..Len(cascade.tried) : cascade.tried[k].stage = stage}

\* C19: the cascade is ordered and stops at the first success.  No attempt
\* but the last made decodes; the result is that attempt, or none when all
\* were made in vain; a scale attempt is made only after all 7 direct ones, a
\* rotation attempt only after all 15 scale ones, an OCR attempt only after
\* all 8 rotation ones and with the flag set; the rotation search goes
\* through binary at 0, 90, 180, 270 and then inverted binary likewise.
C19_CascadeOrdered ==
    cascade.done =>
        LET t == cascade.tried
            rot == [k \in 1..8 |->
                       [stage |-> "rotation",
                        variant |-> IF k <= 4 THEN "binary" ELSE "inv_binary",
                        param |-> <<"0", "90", "180", "270">>[((k - 1) % 4) + 1]]]
        IN
        /\ \A i, j \in 1..Len(t) : i # j => t[i] # t[j]
        /\ \A k \in 1..(Len(t) - 1) : t[k] \notin cascade.img
        /\ cascade.result # NoAttempt =>
               (t # <<>> /\ cascade.result = t[Len(t)] /\ cascade.result \in cascade.img)
        /\ cascade.result = NoAttempt =>
               /\ \A k \in 1..Len(t) : t[k] \notin cascade.img
               /\ Cardinality(Tried("direct")) = 7 /\ Cardinality(Tried("scale")) = 15
               /\ Cardinality(Tried("rotation")) = 8
               /\ Cardinality(Tried("ocr")) = IF cascade.ocr THEN 8 ELSE 0
        /\ Tried("scale") # {} =>
               (Cardinality(Tried("direct")) = 7
                /\ \A i \in Tried("direct"), j \in Tried("scale") : i < j)
        /\ Tried("rotation") # {} =>
               (Cardinality(Tried("scale")) = 15
                /\ \A i \in Tried("scale"), j \in Tried("rotation") : i < j)
        /\ Tried("ocr") # {} =>
               (cascade.ocr /\ Cardinality(Tried("rotation")) = 8
                /\ \A i \in Tried("rotation"), j \in Tried("ocr") : i < j)
        /\ \A k \in 1..Cardinality(Tried("rotation")) :
               t[7 + 15 + k] = rot[k]

C19_Witness ==
    /\ cascade.done
    /\ cascade.result = [stage |-> "rotation", variant |-> "inv_binary", param |-> "90"]
    /\ Len(cascade.tried) = 28
    /\ Cardinality(cascade.img) = 2

\* the symbologies under which the camera can see text t
SymsOf(t) == {sy.sym : sy \in {x \in feed : x.txt = t}}

C21_Step ==
    (ev'.op = "scan") =>
        LET cand == hist'[Len(hist')] IN
        /\ (cand.some /\ cand.txt = potential_code) =>
               /\ potential_code' = potential_code
               /\ potential_code_type' = potential_code_type
               /\ potential_code_count' = potential_code_count + 1
        /\ (cand.some /\ cand.txt # potential_code) =>
               /\ potential_code' = cand.txt
               /\ potential_code_type' \in SymsOf(cand.txt)
               /\ potential_code_count' = 1
        /\ ~cand.some =>
               (potential_code' = EmptyText /\ potential_code_count' = 0)

\* C21: one tracker step.  A candidate equal to the tracked text adds 1 to the
\* counter and keeps the text; a differing candidate becomes the tracked text
\* with its symbology and the counter becomes 1; no candidate empties the text
\* and zeroes the counter.
C21_TrackerStep == [][C21_Step]_vars

C21_Witness ==
    /\ ev.op = "scan"
    /\ Len(hist) = STABLE_THRESHOLD
    /\ hist[1].txt = T_AAA /\ hist[2].txt = T_AAA /\ hist[3].txt = T_BBB
    /\ potential_code = T_BBB /\ potential_code_type = "QRCODE"
    /\ potential_code_count = 1

Direct(name) == [stage |-> "direct", variant |-> name, param |-> "-"]

ScaleTried == SelectSeq(cascade.tried, LAMBDA a : a.stage = "scale")

\* C23: the scale search starts only after all 7 direct attempts failed, goes
\* through binary, sharp and closed only, each at 0.8, 1.0, 1.2, 1.5, 2.0 in
\* that order before the next variant, and ends the cascade at its first
\* attempt that decodes.
C23_ScaleSearch ==
    (cascade.done /\ ScaleTried # <<>>) =>
        LET t == cascade.tried
            sc == ScaleTried
            scales == <<"0.8", "1.0", "1.2", "1.5", "2.0">>
        IN
        /\ \A k \in 1..7 : t[k].stage = "direct" /\ t[k] \notin cascade.img
        /\ \A k \in 1..Len(sc) : t[7 + k] = sc[k]
        /\ \A k \in 1..Len(sc) :
               /\ sc[k].variant \in {"binary", "sharp", "closed"}
               /\ sc[k].param = scales[((k - 1) % 5) + 1]
               /\ (k - 1) % 5 # 0 => sc[k].variant = sc[k - 1].variant
        /\ \A i, j \in 1..Len(sc) : (i # j /\ (i - 1) \div 5 # (j - 1) \div 5) =>
               sc[i].variant # sc[j].variant
        /\ Len(sc) <= 15
        /\ \A k \in 1..(Len(sc) - 1) : sc[k] \notin cascade.img
        /\ sc[Len(sc)] \in cascade.img =>
               (cascade.result = sc[Len(sc)] /\ Len(t) = 7 + Len(sc))
        /\ sc[Len(sc)] \notin cascade.img => Len(sc) = 15

C23_Witness ==
    /\ cascade.done
    /\ cascade.result.stage = "scale" /\ cascade.result.param = "1.2"
    /\ Len(cascade.tried) = 7 + 5 + 3
    /\ Cardinality(cascade.img) = 2

\* C24: when the crop fails at every stage, the crop rotated by 90 degrees
\* clockwise goes through steps 1-3 with the attempt list of the unrotated crop
\* (found exactly when one of these attempts decodes), and each polygon point
\* (x, y) of the result comes back as (y, rotatedWidth - 1 - x).
C24_RotatedSameCascade ==
    (cascade.done /\ cascade.result = NoAttempt) =>
        LET rr == RunCascade(cascade.rimg, FALSE) IN
        /\ cascade.rtried = rr.tried
        /\ cascade.rresult = rr.result
        /\ cascade.rresult # NoAttempt =>
               /\ Len(cascade.back) = Len(cascade.rpoly)
               /\ \A k \in 1..Len(cascade.rpoly) :
                      cascade.back[k] = <<cascade.rpoly[k][2],
                                         cascade.rw - 1 - cascade.rpoly[k][1]>>

\* C25: no automation work (browser start, shop tabs, tab switch, form fill)
\* runs in a handler of the scanning/UI thread; and no automation step changes
\* the locked code.
C25_AutomationOffUiThread ==
    /\ (ev.op \notin {"open_shop", "browser_worker"}) => ev.ui = {}
    /\ (ev.op \in {"open_shop", "browser_worker", "start_browser", "fill"}) =>
           (Len(hist) = STABLE_THRESHOLD /\ Uniform(hist) => stable_code = hist[1].txt)

\* C26: classifier and validator agree.  When Fill Selected runs for a shop
\* that the most recent classification auto-selected or offered, its
\* validation accepts the exposed code.
C26_ClassifierValidatorAgree ==
    (ev.op = "fill" /\ ev.fillShop \in Range(lastCands)) => ev.fillOk

C27_Step ==
    (stable_code # EmptyText) =>
        /\ (ev'.op \in {"scan", "skip", "read_failed", "raised"}) =>
               /\ (stable_code' # stable_code) =>
                      /\ ev'.op = "scan" /\ ev'.lock
                      /\ potential_code_count' >= STABLE_THRESHOLD
                      /\ Uniform(hist')
                      /\ stable_code' = hist'[1].txt
               /\ ~ev'.lock => (stable_code' = stable_code /\ code' = code)
        /\ (stable_code' = EmptyText) => ev'.op \in {"reset_scan", "reset_camera"}

\* C27: the locked code persists.  Once a text is locked, a scan cycle changes
\* the locked code only when a different text has reached the threshold; a
\* cycle without a lock (no candidate, a differing candidate below the
\* threshold, a failed read, a throttled run) leaves the locked code and the
\* code field as they are; only reset_scan empties the locked code.
C27_LockPersists == [][C27_Step]_vars

C27_Witness ==
    /\ ev.op = "scan" /\ ~ev.lock
    /\ stable_code = M38
    /\ potential_code = T_BBB /\ potential_code_count = STABLE_THRESHOLD - 1
    /\ code = TrimLocked(DigitsOnly(M38))

\* C28: in picture mode at most one update_live_video callback is pending.
C28_OneLiveVideoLoop ==
    ~laptopCam => Cardinality({k \in 1..Len(timers) : timers[k] = "live"}) <= 1

\* C29: the worker of a captured picture works on one non-null frozen frame
\* from its null check to its end: it never dereferences None and never
\* reads a frame other than the one it checked.
C29_WorkerSeesOneFrame ==
    \A i \in 1..Len(workers) :
        /\ workers[i].pc \in {"shape", "crop"} => frozen_frame # NoFrame
        /\ workers[i].pc \in {"update", "display_check", "display_copy"} =>
               frozen_frame = workers[i].crop

\* C30: in live scanning the PIN candidate is none in every cycle, so the
\* PIN counter is 0, the tracked and the locked PIN are empty, no cycle locks
\* a PIN and the PIN field is never written.
C30_NoPinInLiveScan ==
    laptopCam =>
        /\ potential_pin_count = 0
        /\ potential_pin = EmptyText
        /\ stable_pin = EmptyText
        /\ ~ev.pinLock
        /\ pin = EmptyText

C30_Witness ==
    /\ laptopCam
    /\ ev.op = "scan" /\ ev.lock
    /\ stable_code = M38 /\ potential_code_count > STABLE_THRESHOLD
    /\ stable_pin = EmptyText /\ pin = EmptyText

====
